---- MODULE Spec2Model ----
(***************************************************************************)
(* Authentication subsystem of the clinical timeline dashboard:            *)
(* AuthenticationService over the JSON file repositories (credential       *)
(* store, attempt tracker) and the append-only audit log.                  *)
(*                                                                         *)
(* Strings whose characters the code inspects (passwords, e-mail           *)
(* addresses) are sequences of one-character strings.                      *)
(***************************************************************************)
EXTENDS Integers, Sequences, FiniteSets, TLC

VARIABLES
    users,        \* users.json: username -> [password, role, email]
    attempts,     \* failed_attempts.json: username -> [count, last_attempt]
    audit,        \* audit.log: sequence of [ts, msg] lines
    clock,        \* number of datetime.now() readings taken so far
    salts,        \* number of bcrypt.gensalt() draws taken so far
    last,         \* the last service call: [op, username, ret]
    current_pw,   \* history: password most recently set for each user record
    streak,       \* history: failed logins of each username since its last
                  \* successful login or unlock, counted up to LockThreshold
    written,      \* audit lines written since the initial state
    input,        \* the arguments of a call of a pure function
    output,       \* what that call returned, None before it
    procs,        \* overlapping requests: each one's position and locals
    session_state,  \* st.session_state of one browser session: a dict
    page          \* the last script run of that session: what it rendered
                  \* and which service operations it called

vars ==
    <<users, attempts, audit, clock, salts, last, current_pw, streak, written,
      input, output, procs, session_state, page>>

\* the state as one value, so that an operation is a function of it
State ==
    [users |-> users, attempts |-> attempts, audit |-> audit, clock |-> clock,
     salts |-> salts, last |-> last, current_pw |-> current_pw,
     streak |-> streak]

----------------------------------------------------------------------------
(* Bounds *)

\* audit lines written in one behaviour
MaxLog == 1

\* longest password given to the password policy
MaxPwLen == 9

\* longest answer given to the CAPTCHA
MaxAnsLen == 4

\* calls begun by the overlapping requests in one behaviour
MaxCalls == 2

----------------------------------------------------------------------------
(* Input alphabets *)

Usernames == {"alice", "bob"}
Admins == {"root"}

PwGood1 == <<"A", "b", "c", "1", "2", "3", "4", "5", "!">>
PwGood2 == <<"X", "y", "z", "9", "8", "7", "6", "5", "?">>
PwShort == <<"s", "h", "o", "r", "t", "1", "!">>
Passwords == {PwGood1, PwGood2, PwShort}

EmailOk  == <<"u", "@", "x", ".", "c">>
EmailNew == <<"n", "@", "y", ".", "d">>
EmailBad == <<"u", "x", ".", "c">>
Emails == {EmailOk, EmailBad}

\* the roles the admin page offers
PageRoles == {"admin", "viewer"}

\* role arguments of the service: any string, one outside the page's list
\* included
Roles == PageRoles \cup {"guest"}

----------------------------------------------------------------------------
(* Python values that may be None *)

PyNone == [t |-> "None"]
PyBool(b) == [t |-> "bool", v |-> b]
PyTrue == PyBool(TRUE)
PyFalse == PyBool(FALSE)

----------------------------------------------------------------------------
(* PasswordService *)

UpperChars == {"A", "B", "C", "D", "E", "F", "G", "H", "I", "J", "K", "L", "M",
               "N", "O", "P", "Q", "R", "S", "T", "U", "V", "W", "X", "Y", "Z"}
LowerChars == {"a", "b", "c", "d", "e", "f", "g", "h", "i", "j", "k", "l", "m",
               "n", "o", "p", "q", "r", "s", "t", "u", "v", "w", "x", "y", "z"}
DigitChars == {"0", "1", "2", "3", "4", "5", "6", "7", "8", "9"}
SpecialChars == {"!", "@", "#", "$", "%", "^", "&", "*", "(", ")", ",", ".",
                 "?", "\"", ":", "{", "}", "|", "<", ">"}

MinPasswordLen == 8

\* re.search(r"[class]", password)
search(class, s) == \E i \in 1..Len(s) : s[i] \in class

\* rejects a password of exactly the minimum length
is_valid_password_longer(password) ==
    IF Len(password) <= MinPasswordLen THEN FALSE
    ELSE IF ~search(UpperChars, password) THEN FALSE
    ELSE IF ~search(LowerChars, password) THEN FALSE
    ELSE IF ~search(DigitChars, password) THEN FALSE
    ELSE IF ~search(SpecialChars, password) THEN FALSE
    ELSE TRUE

is_valid_password(password) ==
    IF Len(password) < MinPasswordLen THEN FALSE
    ELSE IF ~search(UpperChars, password) THEN FALSE
    ELSE IF ~search(LowerChars, password) THEN FALSE
    ELSE IF ~search(DigitChars, password) THEN FALSE
    ELSE IF ~search(SpecialChars, password) THEN FALSE
    ELSE TRUE

\* bcrypt.hashpw(password, salt): a salted digest that only checkpw can relate
\* to the password
hash_password(password, salt) == [digest |-> password, salt |-> salt]

verify_password(password, hashed) ==
    hash_password(password, hashed.salt) = hashed

\* re.match(r"[^@]+@[^@]+\.[^@]+", email): a prefix of email has the shape
valid_email(email) ==
    \E i, j, k \in 1..Len(email) :
        /\ i >= 2 /\ i + 1 < j /\ j < k
        /\ \A n \in 1..(i - 1) : email[n] # "@"
        /\ email[i] = "@"
        /\ \A n \in (i + 1)..(j - 1) : email[n] # "@"
        /\ email[j] = "."
        /\ \A n \in (j + 1)..k : email[n] # "@"

----------------------------------------------------------------------------
(* Python dict operations used by the repositories *)

Put(d, k, v) == [x \in (DOMAIN d) \cup {k} |-> IF x = k THEN v ELSE d[x]]
Del(d, k) == [x \in (DOMAIN d) \ {k} |-> d[x]]

----------------------------------------------------------------------------
(* Repositories: each call loads the whole file and, when it writes, saves  *)
(* the whole file back                                                      *)

user_exists(store, username) == username \in DOMAIN store

\* "if not user_data": a missing key, not a record, is what makes it falsy
find_by_username(store, username) ==
    IF username \in DOMAIN store THEN store[username] ELSE PyNone

\* writes only records that are new
save_user_insert_only(store, username, user_data) ==
    IF username \in DOMAIN store THEN store ELSE Put(store, username, user_data)

save_user(store, username, user_data) == Put(store, username, user_data)

get_attempts(store, username) ==
    IF username \in DOMAIN store THEN store[username] ELSE PyNone

save_attempt(store, username, attempt_data) == Put(store, username, attempt_data)

\* deletes from the loaded copy and never saves it
clear_attempts_unsaved(store, username) == store

\* saves an empty tracker
clear_attempts_all(store, username) ==
    IF username \in DOMAIN store THEN <<>> ELSE store

clear_attempts(store, username) ==
    IF username \in DOMAIN store THEN Del(store, username) ELSE store

\* opens the log for writing instead of appending
log_event_truncates(log, ts, message) == <<[ts |-> ts, msg |-> message]>>

log_event(log, ts, message) == Append(log, [ts |-> ts, msg |-> message])

----------------------------------------------------------------------------
(* Result values *)

PyStr(s) == [t |-> "str", v |-> s]

MsgLocked == PyStr("Account locked due to multiple failed attempts")
MsgInvalid == PyStr("Invalid username or password")

User(username, email, role, password_hash) ==
    [username |-> username, email |-> email, role |-> role,
     password_hash |-> password_hash]

\* the dataclass defaults are user=None, error_message=None,
\* requires_captcha=False
AuthenticationResult(success, user, error_message, requires_captcha) ==
    [success |-> success, user |-> user, error_message |-> error_message,
     requires_captcha |-> requires_captcha]

----------------------------------------------------------------------------
(* AuthenticationService: queries *)

LockThreshold == 3

\* off by one: locks only after the fourth failure
_is_account_locked_gt(store, username) ==
    IF get_attempts(store, username) = PyNone THEN PyNone
    ELSE PyBool(get_attempts(store, username).count > LockThreshold)

\* "attempts and attempts.get('count', 0) >= 3": None when there is no record
_is_account_locked(store, username) ==
    IF get_attempts(store, username) = PyNone THEN PyNone
    ELSE PyBool(get_attempts(store, username).count >= LockThreshold)

needs_captcha(s, username) == _is_account_locked(s.attempts, username)

\* lists the records whose count is above the lockout count
get_locked_users_gt(s) ==
    {user \in DOMAIN s.attempts : s.attempts[user].count > LockThreshold}

get_locked_users(s) ==
    {user \in DOMAIN s.attempts : s.attempts[user].count >= LockThreshold}

\* Python truth value of what _is_account_locked returns
Truthy(v) == v = PyTrue

\* forgets the count already stored
_record_failed_attempt_restart(store, username, now) ==
    save_attempt(store, username, [count |-> 1, last_attempt |-> now])

\* starts a new record at 0
_record_failed_attempt_from_zero(store, username, now) ==
    LET old == get_attempts(store, username)
        count == IF old # PyNone THEN old.count + 1 ELSE 0
    IN  save_attempt(store, username, [count |-> count, last_attempt |-> now])

_record_failed_attempt(store, username, now) ==
    LET old == get_attempts(store, username)
        count == IF old # PyNone THEN old.count + 1 ELSE 1
    IN  save_attempt(store, username, [count |-> count, last_attempt |-> now])

\* datetime.now(): the n-th reading after the ones already taken; successive
\* readings are told apart
now(s, n) == s.clock + n

\* bcrypt.gensalt(): a salt no earlier call has drawn
gensalt(s) == s.salts + 1

----------------------------------------------------------------------------
(* AuthenticationService: operations, each a function from the state before *)
(* the call to the state after it; last holds the call and what it returned *)

Call(op, username, ret) == [op |-> op, username |-> username, ret |-> ret]

\* still records and audits the attempt while locked
authenticate_locked_records(s, username) ==
    [s EXCEPT
        !.attempts = _record_failed_attempt(s.attempts, username, now(s, 1)),
        !.audit = log_event(s.audit, now(s, 2),
            <<"Failed login attempt for username: ", username>>),
        !.clock = now(s, 2),
        !.last = Call("authenticate", username,
            AuthenticationResult(FALSE, PyNone, MsgLocked, PyTrue))]

\* lines 52-57: the short circuit taken while the account is locked
authenticate_locked(s, username) ==
    [s EXCEPT !.last = Call("authenticate", username,
        AuthenticationResult(FALSE, PyNone, MsgLocked, PyTrue))]

\* tells the caller that the username does not exist
authenticate_unknown_reveals(s, username) ==
    [s EXCEPT
        !.attempts = _record_failed_attempt(s.attempts, username, now(s, 1)),
        !.audit = log_event(s.audit, now(s, 2),
            <<"Failed login attempt for non-existent username: ", username>>),
        !.clock = now(s, 2),
        !.last = Call("authenticate", username,
            AuthenticationResult(FALSE, PyNone, PyStr("User not found"), PyFalse))]

\* lines 61-67: no user record
authenticate_unknown(s, username) ==
    [s EXCEPT
        !.attempts = _record_failed_attempt(s.attempts, username, now(s, 1)),
        !.audit = log_event(s.audit, now(s, 2),
            <<"Failed login attempt for non-existent username: ", username>>),
        !.clock = now(s, 2),
        !.last = Call("authenticate", username,
            AuthenticationResult(FALSE, PyNone, MsgInvalid, PyFalse))]

\* saves the user again with a fresh hash of the password's digest
authenticate_success_rehashes(s, username, user_data) ==
    [s EXCEPT
        !.users = save_user(s.users, username,
            [user_data EXCEPT
                !.password = hash_password(user_data.password.digest,
                                           gensalt(s))]),
        !.salts = gensalt(s),
        !.attempts = clear_attempts(s.attempts, username),
        !.audit = log_event(s.audit, now(s, 1),
            <<"Successful login: ", username>>),
        !.clock = now(s, 1),
        !.last = Call("authenticate", username,
            AuthenticationResult(TRUE,
                User(username, user_data.email, user_data.role,
                     user_data.password),
                PyNone, PyFalse))]

\* reports the success without the user
authenticate_success_without_user(s, username, user_data) ==
    [s EXCEPT
        !.attempts = clear_attempts(s.attempts, username),
        !.audit = log_event(s.audit, now(s, 1),
            <<"Successful login: ", username>>),
        !.clock = now(s, 1),
        !.last = Call("authenticate", username,
            AuthenticationResult(TRUE, PyNone, PyNone, PyFalse))]

\* lines 70-80: the password verifies
authenticate_success(s, username, user_data) ==
    [s EXCEPT
        !.attempts = clear_attempts(s.attempts, username),
        !.audit = log_event(s.audit, now(s, 1),
            <<"Successful login: ", username>>),
        !.clock = now(s, 1),
        !.last = Call("authenticate", username,
            AuthenticationResult(TRUE,
                User(username, user_data.email, user_data.role,
                     user_data.password),
                PyNone, PyFalse))]

\* lines 81-89: the password does not verify
authenticate_failure(s, username) ==
    LET recorded == _record_failed_attempt(s.attempts, username, now(s, 1))
    IN  [s EXCEPT
            !.attempts = recorded,
            !.audit = log_event(s.audit, now(s, 2),
                <<"Failed login attempt for username: ", username>>),
            !.clock = now(s, 2),
            !.last = Call("authenticate", username,
                AuthenticationResult(FALSE, PyNone, MsgInvalid,
                    _is_account_locked(recorded, username)))]

\* verifies the password before looking at the lockout
authenticate_verify_first(s, username, password) ==
    LET user_data == find_by_username(s.users, username)
    IN  IF user_data # PyNone /\ verify_password(password, user_data.password) THEN
            authenticate_success(s, username, user_data)
        ELSE IF Truthy(_is_account_locked(s.attempts, username)) THEN
            authenticate_locked(s, username)
        ELSE IF user_data = PyNone THEN
            authenticate_unknown(s, username)
        ELSE
            authenticate_failure(s, username)

authenticate(s, username, password) ==
    LET user_data == find_by_username(s.users, username)
    IN  IF Truthy(_is_account_locked(s.attempts, username)) THEN
            authenticate_locked(s, username)
        ELSE IF user_data = PyNone THEN
            authenticate_unknown(s, username)
        ELSE IF verify_password(password, user_data.password) THEN
            authenticate_success(s, username, user_data)
        ELSE
            authenticate_failure(s, username)

\* saves the new hash without an audit entry
reset_password_silent(s, username, new_password) ==
    LET user_data == find_by_username(s.users, username)
    IN  IF ~is_valid_password(new_password) THEN
            [s EXCEPT !.last = Call("reset_password", username, FALSE)]
        ELSE IF user_data = PyNone THEN
            [s EXCEPT !.last = Call("reset_password", username, FALSE)]
        ELSE
            [s EXCEPT
                !.users = save_user(s.users, username,
                    [user_data EXCEPT
                        !.password = hash_password(new_password, gensalt(s))]),
                !.salts = gensalt(s),
                !.last = Call("reset_password", username, TRUE)]

reset_password(s, username, new_password) ==
    LET user_data == find_by_username(s.users, username)
    IN  IF ~is_valid_password(new_password) THEN
            [s EXCEPT !.last = Call("reset_password", username, FALSE)]
        ELSE IF user_data = PyNone THEN
            [s EXCEPT !.last = Call("reset_password", username, FALSE)]
        ELSE
            [s EXCEPT
                !.users = save_user(s.users, username,
                    [user_data EXCEPT
                        !.password = hash_password(new_password, gensalt(s))]),
                !.salts = gensalt(s),
                !.audit = log_event(s.audit, now(s, 1),
                    <<"Password reset by user: ", username>>),
                !.clock = now(s, 1),
                !.last = Call("reset_password", username, TRUE)]

\* saves the new record without an audit entry
create_user_unlogged(s, username, email, password, role) ==
    IF user_exists(s.users, username) THEN
        [s EXCEPT !.last = Call("create_user", username, FALSE)]
    ELSE IF ~is_valid_password(password) THEN
        [s EXCEPT !.last = Call("create_user", username, FALSE)]
    ELSE IF ~valid_email(email) THEN
        [s EXCEPT !.last = Call("create_user", username, FALSE)]
    ELSE
        [s EXCEPT
            !.users = save_user(s.users, username,
                [password |-> hash_password(password, gensalt(s)),
                 role |-> role, email |-> email]),
            !.salts = gensalt(s),
            !.last = Call("create_user", username, TRUE)]

\* creates without looking for an existing record
create_user_overwrites(s, username, email, password, role) ==
    IF ~is_valid_password(password) THEN
        [s EXCEPT !.last = Call("create_user", username, FALSE)]
    ELSE IF ~valid_email(email) THEN
        [s EXCEPT !.last = Call("create_user", username, FALSE)]
    ELSE
        [s EXCEPT
            !.users = save_user(s.users, username,
                [password |-> hash_password(password, gensalt(s)),
                 role |-> role, email |-> email]),
            !.salts = gensalt(s),
            !.audit = log_event(s.audit, now(s, 1),
                <<"User created: ", username, " (", role, ")">>),
            !.clock = now(s, 1),
            !.last = Call("create_user", username, TRUE)]

\* validates, audits and reports the creation without saving the record
create_user_unsaved(s, username, email, password, role) ==
    IF user_exists(s.users, username) THEN
        [s EXCEPT !.last = Call("create_user", username, FALSE)]
    ELSE IF ~is_valid_password(password) THEN
        [s EXCEPT !.last = Call("create_user", username, FALSE)]
    ELSE IF ~valid_email(email) THEN
        [s EXCEPT !.last = Call("create_user", username, FALSE)]
    ELSE
        [s EXCEPT
            !.salts = gensalt(s),
            !.audit = log_event(s.audit, now(s, 1),
                <<"User created: ", username, " (", role, ")">>),
            !.clock = now(s, 1),
            !.last = Call("create_user", username, TRUE)]

create_user(s, username, email, password, role) ==
    IF user_exists(s.users, username) THEN
        [s EXCEPT !.last = Call("create_user", username, FALSE)]
    ELSE IF ~is_valid_password(password) THEN
        [s EXCEPT !.last = Call("create_user", username, FALSE)]
    ELSE IF ~valid_email(email) THEN
        [s EXCEPT !.last = Call("create_user", username, FALSE)]
    ELSE
        [s EXCEPT
            !.users = save_user(s.users, username,
                [password |-> hash_password(password, gensalt(s)),
                 role |-> role, email |-> email]),
            !.salts = gensalt(s),
            !.audit = log_event(s.audit, now(s, 1),
                <<"User created: ", username, " (", role, ")">>),
            !.clock = now(s, 1),
            !.last = Call("create_user", username, TRUE)]

\* stores an empty email when the email is omitted
update_user_blanks_email(s, username, email, role) ==
    LET user_data == find_by_username(s.users, username)
        with_email == [user_data EXCEPT
                          !.email = IF email # PyNone THEN email.v ELSE <<>>]
        with_role == IF role # PyNone /\ role.v # ""
                     THEN [with_email EXCEPT !.role = role.v] ELSE with_email
    IN  IF user_data = PyNone THEN
            [s EXCEPT !.last = Call("update_user", username, FALSE)]
        ELSE
            [s EXCEPT
                !.users = save_user(s.users, username, with_role),
                !.audit = log_event(s.audit, now(s, 1),
                    <<"Updated user info: ", username, ", role=", role,
                      ", email=", email>>),
                !.clock = now(s, 1),
                !.last = Call("update_user", username, TRUE)]

\* email and role default to None; "if email:" also skips the empty string
update_user(s, username, email, role) ==
    LET user_data == find_by_username(s.users, username)
        with_email == IF email # PyNone /\ email.v # <<>>
                      THEN [user_data EXCEPT !.email = email.v] ELSE user_data
        with_role == IF role # PyNone /\ role.v # ""
                     THEN [with_email EXCEPT !.role = role.v] ELSE with_email
    IN  IF user_data = PyNone THEN
            [s EXCEPT !.last = Call("update_user", username, FALSE)]
        ELSE
            [s EXCEPT
                !.users = save_user(s.users, username, with_role),
                !.audit = log_event(s.audit, now(s, 1),
                    <<"Updated user info: ", username, ", role=", role,
                      ", email=", email>>),
                !.clock = now(s, 1),
                !.last = Call("update_user", username, TRUE)]

\* sets the password of a username without a record too
admin_reset_password_creates(s, target_username, new_password, admin_username) ==
    LET user_data == find_by_username(s.users, target_username)
        record == IF user_data = PyNone
                  THEN [password |-> PyNone, role |-> "viewer", email |-> <<>>]
                  ELSE user_data
    IN  IF ~is_valid_password(new_password) THEN
            [s EXCEPT !.last = Call("admin_reset_password", target_username, FALSE)]
        ELSE
            [s EXCEPT
                !.users = save_user(s.users, target_username,
                    [record EXCEPT
                        !.password = hash_password(new_password, gensalt(s))]),
                !.salts = gensalt(s),
                !.audit = log_event(s.audit, now(s, 1),
                    <<"Admin ", admin_username, " reset password for user: ",
                      target_username>>),
                !.clock = now(s, 1),
                !.last = Call("admin_reset_password", target_username, TRUE)]

\* also clears the target's attempt record
admin_reset_password_clears(s, target_username, new_password, admin_username) ==
    LET user_data == find_by_username(s.users, target_username)
    IN  IF ~is_valid_password(new_password) THEN
            [s EXCEPT !.last = Call("admin_reset_password", target_username, FALSE)]
        ELSE IF user_data = PyNone THEN
            [s EXCEPT !.last = Call("admin_reset_password", target_username, FALSE)]
        ELSE
            [s EXCEPT
                !.users = save_user(s.users, target_username,
                    [user_data EXCEPT
                        !.password = hash_password(new_password, gensalt(s))]),
                !.salts = gensalt(s),
                !.attempts = clear_attempts(s.attempts, target_username),
                !.audit = log_event(s.audit, now(s, 1),
                    <<"Admin ", admin_username, " reset password for user: ",
                      target_username>>),
                !.clock = now(s, 1),
                !.last = Call("admin_reset_password", target_username, TRUE)]

admin_reset_password(s, target_username, new_password, admin_username) ==
    LET user_data == find_by_username(s.users, target_username)
    IN  IF ~is_valid_password(new_password) THEN
            [s EXCEPT !.last = Call("admin_reset_password", target_username, FALSE)]
        ELSE IF user_data = PyNone THEN
            [s EXCEPT !.last = Call("admin_reset_password", target_username, FALSE)]
        ELSE
            [s EXCEPT
                !.users = save_user(s.users, target_username,
                    [user_data EXCEPT
                        !.password = hash_password(new_password, gensalt(s))]),
                !.salts = gensalt(s),
                !.audit = log_event(s.audit, now(s, 1),
                    <<"Admin ", admin_username, " reset password for user: ",
                      target_username>>),
                !.clock = now(s, 1),
                !.last = Call("admin_reset_password", target_username, TRUE)]

\* audits the unlock and reports it without clearing the record
unlock_user_keeps_record(s, username, admin_username) ==
    IF get_attempts(s.attempts, username) # PyNone THEN
        [s EXCEPT
            !.audit = log_event(s.audit, now(s, 1),
                <<"Admin ", admin_username, " unlocked user: ", username>>),
            !.clock = now(s, 1),
            !.last = Call("unlock_user", username, TRUE)]
    ELSE
        [s EXCEPT !.last = Call("unlock_user", username, FALSE)]

\* unlocks only a record that has reached the lockout count
unlock_user_locked_only(s, username, admin_username) ==
    IF Truthy(_is_account_locked(s.attempts, username)) THEN
        [s EXCEPT
            !.attempts = clear_attempts(s.attempts, username),
            !.audit = log_event(s.audit, now(s, 1),
                <<"Admin ", admin_username, " unlocked user: ", username>>),
            !.clock = now(s, 1),
            !.last = Call("unlock_user", username, TRUE)]
    ELSE
        [s EXCEPT !.last = Call("unlock_user", username, FALSE)]

unlock_user(s, username, admin_username) ==
    IF get_attempts(s.attempts, username) # PyNone THEN
        [s EXCEPT
            !.attempts = clear_attempts(s.attempts, username),
            !.audit = log_event(s.audit, now(s, 1),
                <<"Admin ", admin_username, " unlocked user: ", username>>),
            !.clock = now(s, 1),
            !.last = Call("unlock_user", username, TRUE)]
    ELSE
        [s EXCEPT !.last = Call("unlock_user", username, FALSE)]

----------------------------------------------------------------------------
(* History kept beside the program state: what a caller of the service can *)
(* observe about the calls made so far                                      *)

Min(a, b) == IF a < b THEN a ELSE b

NoPassword == <<>>

PasswordSetters == {"create_user", "reset_password", "admin_reset_password"}

\* t is the state the call left, s the state before it, password the
\* password argument of the call
Observe(s, t, password) ==
    [t EXCEPT
        !.current_pw =
            IF t.last.op \in PasswordSetters /\ t.last.ret = TRUE
            THEN Put(s.current_pw, t.last.username, password)
            ELSE s.current_pw,
        !.streak =
            IF t.last.op = "authenticate" THEN
                [s.streak EXCEPT ![t.last.username] =
                    IF t.last.ret.success THEN 0
                    ELSE Min(@ + 1, LockThreshold)]
            ELSE IF t.last.op = "unlock_user" /\ t.last.ret = TRUE THEN
                [s.streak EXCEPT ![t.last.username] = 0]
            ELSE s.streak]

----------------------------------------------------------------------------
(* Specification: any sequence of service calls, one at a time.  The       *)
(* initial states are stores as the service itself leaves them: empty, and *)
(* after the calls that create one user, fail logins, and clear the        *)
(* failures again.                                                          *)

OptEmails == {PyNone, PyStr(EmailNew)}
OptRoles == {PyNone, PyStr("admin")}

Empty ==
    [users |-> <<>>, attempts |-> <<>>, audit |-> <<>>, clock |-> 0,
     salts |-> 0, last |-> Call("init", "", PyNone), current_pw |-> <<>>,
     streak |-> [u \in Usernames |-> 0]]

OneUser ==
    Observe(Empty, create_user(Empty, "alice", EmailOk, PwGood1, "viewer"),
            PwGood1)

\* n logins with a wrong password for username
RECURSIVE FailedLogins(_, _, _)
FailedLogins(s, username, n) ==
    IF n = 0 THEN s
    ELSE LET r == FailedLogins(s, username, n - 1)
         IN  Observe(r, authenticate(r, username, PwGood2), PwGood2)

TwoFailures == FailedLogins(OneUser, "alice", 2)
LockedUser == FailedLogins(OneUser, "alice", LockThreshold)
LockedGhost == FailedLogins(OneUser, "bob", LockThreshold)

\* two failures for the user and two for a username without a record
TwoFailuresEach == FailedLogins(TwoFailures, "bob", 2)

\* the locked user unlocked by an admin
Unlocked ==
    Observe(LockedUser, unlock_user(LockedUser, "alice", "root"), NoPassword)

\* two failures followed by a successful login
Recovered ==
    Observe(TwoFailures, authenticate(TwoFailures, "alice", PwGood1), PwGood1)

Init ==
    \E f \in {Empty, OneUser, TwoFailures, LockedUser, LockedGhost,
              TwoFailuresEach, Unlocked, Recovered} :
        /\ users = f.users
        /\ attempts = f.attempts
        /\ audit = f.audit
        /\ clock = f.clock
        /\ salts = f.salts
        /\ last = f.last
        /\ current_pw = f.current_pw
        /\ streak = f.streak
        /\ written = 0
        /\ input = PyNone
        /\ output = PyNone
        /\ procs = <<>>
        /\ session_state = <<>>
        /\ page = <<>>

\* the step to state t; a call that writes to the audit log is taken only
\* while fewer than MaxLog lines have been written
Step(t) ==
    /\ Len(t.audit) > Len(audit) => written < MaxLog
    /\ users' = t.users
    /\ attempts' = t.attempts
    /\ audit' = t.audit
    /\ clock' = t.clock
    /\ salts' = t.salts
    /\ last' = t.last
    /\ current_pw' = t.current_pw
    /\ streak' = t.streak
    /\ written' = written + (Len(t.audit) - Len(audit))
    /\ UNCHANGED <<input, output, procs, session_state, page>>

Authenticate ==
    \E u \in Usernames, p \in Passwords :
        Step(Observe(State, authenticate(State, u, p), p))

ResetPassword ==
    \E u \in Usernames, p \in Passwords :
        Step(Observe(State, reset_password(State, u, p), p))

CreateUser ==
    \E u \in Usernames, e \in Emails, p \in Passwords, r \in Roles :
        Step(Observe(State, create_user(State, u, e, p, r), p))

UpdateUser ==
    \E u \in Usernames, e \in OptEmails, r \in OptRoles :
        Step(Observe(State, update_user(State, u, e, r), NoPassword))

AdminResetPassword ==
    \E u \in Usernames, p \in Passwords, a \in Admins :
        Step(Observe(State, admin_reset_password(State, u, p, a), p))

UnlockUser ==
    \E u \in Usernames, a \in Admins :
        Step(Observe(State, unlock_user(State, u, a), NoPassword))

Next ==
    \/ Authenticate
    \/ ResetPassword
    \/ CreateUser
    \/ UpdateUser
    \/ AdminResetPassword
    \/ UnlockUser

Spec == Init /\ [][Next]_vars

----------------------------------------------------------------------------
(* Properties *)

Count(username) ==
    IF username \in DOMAIN attempts THEN attempts[username].count ELSE 0

Locked(username) == Truthy(needs_captcha(State, username))

LockedResult == AuthenticationResult(FALSE, PyNone, MsgLocked, PyTrue)

FailedFor(username) == <<"Failed login attempt for username: ", username>>
SucceededFor(username) == <<"Successful login: ", username>>

\* C1: when the stored attempt count of a username is 3 or more, authenticate
\* returns success=false, requires_captcha=true and the "Account locked"
\* message for every password, the user's current password included.
C1_LockedShortCircuit ==
    \A u \in Usernames, p \in Passwords :
        Count(u) >= 3 =>
            LET r == authenticate(State, u, p).last.ret
            IN  /\ r.success = FALSE
                /\ r.requires_captcha = PyTrue
                /\ r.error_message = MsgLocked

\* a locked user with a record was just refused, and the current password is
\* refused in the same way
C1_Witness ==
    \E u \in DOMAIN users :
        /\ Count(u) >= 3
        /\ last = Call("authenticate", u, LockedResult)
        /\ authenticate(State, u, current_pw[u]).last.ret = last.ret

\* C2: counting the failed logins of a username since it last had no attempt
\* record, the username is locked exactly when there have been 3 or more.
C2_LockedIffThreeFailures ==
    \A u \in Usernames : Locked(u) <=> streak[u] >= 3

\* the third failure in a row has just been answered
C2_Witness ==
    /\ written > 0
    /\ last.op = "authenticate"
    /\ last.ret.error_message = MsgInvalid
    /\ streak[last.username] = 3
    /\ Locked(last.username)

\* C3: a step that takes a username from locked to unlocked is an admin
\* unlock or an admin password reset for that username, never an authenticate.
C3_OnlyAdminUnlocks ==
    [][\A u \in Usernames :
        (Locked(u) /\ ~Locked(u)') =>
            /\ last'.op \in {"unlock_user", "admin_reset_password"}
            /\ last'.username = u]_vars

\* a user with a record is still locked after audited calls and a login
C3_Witness ==
    \E u \in DOMAIN users :
        /\ Locked(u)
        /\ written > 0
        /\ last = Call("authenticate", u, LockedResult)

\* C4: authenticate succeeds exactly when the username is unlocked, has a
\* record, and the password is the one most recently set for it.
C4_SuccessIffCurrentPassword ==
    \A u \in Usernames, p \in Passwords :
        authenticate(State, u, p).last.ret.success <=>
            /\ ~Locked(u)
            /\ u \in DOMAIN users
            /\ u \in DOMAIN current_pw
            /\ p = current_pw[u]

\* a password reset has just succeeded: the new password logs in and the
\* other valid password does not
C4_Witness ==
    /\ last.op \in {"reset_password", "admin_reset_password"}
    /\ last.ret = TRUE
    /\ ~Locked(last.username)
    /\ \E p, q \in Passwords :
        /\ p # q /\ is_valid_password(q)
        /\ authenticate(State, last.username, p).last.ret.success
        /\ ~authenticate(State, last.username, q).last.ret.success

UnlockedBy(admin_username, username) ==
    <<"Admin ", admin_username, " unlocked user: ", username>>

\* C6: for a locked user with a record, unlock_user succeeds and the login
\* with the current password right after it succeeds, leaving no attempt
\* record and needs_captcha not true.
C6_UnlockThenLogin ==
    \A u \in DOMAIN users, a \in Admins :
        Locked(u) =>
            LET t1 == unlock_user(State, u, a)
                t2 == authenticate(t1, u, current_pw[u])
            IN  /\ t1.last.ret = TRUE
                /\ t2.last.ret.success
                /\ u \notin DOMAIN t2.attempts
                /\ needs_captcha(t2, u) # PyTrue

\* the audit log ends with a failed login, the unlock and the successful
\* login of one username
C6_Witness ==
    \E u \in DOMAIN users, a \in Admins :
        LET n == Len(audit)
        IN  /\ n >= 3
            /\ audit[n - 2].msg = FailedFor(u)
            /\ audit[n - 1].msg = UnlockedBy(a, u)
            /\ audit[n].msg = SucceededFor(u)
            /\ last.op = "authenticate" /\ last.ret.success
            /\ u \notin DOMAIN attempts

\* C7: a successful admin_reset_password leaves the target without an
\* attempt record.
C7_AdminResetClears ==
    (last.op = "admin_reset_password" /\ last.ret = TRUE) =>
        last.username \notin DOMAIN attempts

C10_SameErrorText ==
    \A u, v \in Usernames, p, q \in Passwords :
        (/\ ~Locked(u) /\ ~Locked(v)
         /\ u \notin DOMAIN users
         /\ v \in DOMAIN users
         /\ ~verify_password(q, users[v].password)) =>
            LET ru == authenticate(State, u, p).last.ret
                rv == authenticate(State, v, q).last.ret
            IN  /\ ru.error_message = rv.error_message
                /\ ru.error_message = MsgInvalid

\* a login on a username without a record was just refused while an
\* unlocked user with a record exists
C10_Witness ==
    /\ written > 0
    /\ last.op = "authenticate"
    /\ last.username \notin DOMAIN users
    /\ last.ret.error_message = MsgInvalid
    /\ \E v \in DOMAIN users : ~Locked(v)

\* C11: for a username without a record and a username with a record that
\* have the same attempt count, a login on the first and a wrong-password
\* login on the second return results equal in every field.
C11_SameFailedResult ==
    \A u, v \in Usernames, p, q \in Passwords :
        (/\ u \notin DOMAIN users
         /\ v \in DOMAIN users
         /\ ~verify_password(q, users[v].password)
         /\ Count(u) = Count(v)) =>
            authenticate(State, u, p).last.ret = authenticate(State, v, q).last.ret

\* C12: an authenticate call after which the username is locked returns
\* requires_captcha=true, with or without a user record.
C12_LockedMeansCaptcha ==
    [][(last.op = "authenticate" /\ Locked(last.username) =>
            last.ret.requires_captcha = PyTrue)']_vars

\* C13: the user carried by a successful authenticate result has only the
\* fields username, email and role; the stored password hash is not in it.
C13_NoHashReturned ==
    (last.op = "authenticate" /\ last.ret.success) =>
        DOMAIN last.ret.user = {"username", "email", "role"}

ErrorTexts == {MsgLocked, MsgInvalid}

\* C14: a successful authenticate result carries a user with the username
\* passed and the email and role of the stored record, no error message and
\* requires_captcha=false; an unsuccessful one carries no user and one of
\* the two fixed error texts.
C14_WellFormedResult ==
    \A u \in Usernames, p \in Passwords :
        LET r == authenticate(State, u, p).last.ret
        IN  IF r.success THEN
                /\ u \in DOMAIN users
                /\ r.user # PyNone
                /\ r.user.username = u
                /\ r.user.email = users[u].email
                /\ r.user.role = users[u].role
                /\ r.error_message = PyNone
                /\ r.requires_captcha = PyFalse
            ELSE
                /\ r.user = PyNone
                /\ r.error_message \in ErrorTexts

\* a login has just succeeded and carried the stored email, and a login with
\* another password would be refused with the generic text
C14_Witness ==
    /\ written > 0
    /\ last.op = "authenticate"
    /\ last.ret.success
    /\ last.ret.user.username = last.username
    /\ last.ret.user.email = users[last.username].email
    /\ \E p \in Passwords :
        authenticate(State, last.username, p).last.ret.error_message = MsgInvalid

\* C15: create_user returns false and leaves the credential store, the
\* attempt tracker and the audit log as they were when the username exists,
\* the password fails the policy or the email fails the shape check;
\* otherwise it returns true.
C15_CreateRefusals ==
    \A u \in Usernames, e \in Emails, p \in Passwords, r \in Roles :
        LET t == create_user(State, u, e, p, r)
        IN  IF u \in DOMAIN users \/ ~is_valid_password(p) \/ ~valid_email(e)
            THEN /\ t.last.ret = FALSE
                 /\ t.users = users
                 /\ t.attempts = attempts
                 /\ t.audit = audit
            ELSE t.last.ret = TRUE

\* the creation of an existing username with a valid password and email has
\* just been refused, and the user's password still logs in
C15_Witness ==
    /\ last = Call("create_user", last.username, FALSE)
    /\ last.username \in DOMAIN users
    /\ ~Locked(last.username)
    /\ verify_password(current_pw[last.username], users[last.username].password)
    /\ \E e \in Emails, p \in Passwords, r \in Roles :
        /\ is_valid_password(p) /\ valid_email(e)
        /\ create_user(State, last.username, e, p, r) = State

\* C16 as stated: whenever create_user returns true, an authenticate with
\* the same username and password right after it succeeds with that email
\* and role, whatever preceded the creation.
C16_NewUserLogsIn ==
    \A u \in Usernames, e \in Emails, p \in Passwords, r \in Roles :
        LET t == create_user(State, u, e, p, r)
            a == authenticate(t, u, p).last.ret
        IN  t.last.ret = TRUE =>
                /\ a.success
                /\ a.user.email = e
                /\ a.user.role = r

\* C16: whenever create_user returns true for a username that is not locked
\* (fewer than 3 failed attempts recorded for it), an authenticate with the
\* same username and password right after it succeeds with that email and
\* role.
C16_NewUnlockedUserLogsIn ==
    \A u \in Usernames, e \in Emails, p \in Passwords, r \in Roles :
        LET t == create_user(State, u, e, p, r)
            a == authenticate(t, u, p).last.ret
        IN  (t.last.ret = TRUE /\ ~Locked(u)) =>
                /\ a.success
                /\ a.user.email = e
                /\ a.user.role = r

\* a user has just been created under a username with failed attempts
\* recorded but not locked, and the password given logs in
C16_Witness ==
    /\ written > 0
    /\ last = Call("create_user", last.username, TRUE)
    /\ Count(last.username) > 0
    /\ ~Locked(last.username)
    /\ authenticate(State, last.username, current_pw[last.username]).last.ret.success

\* C17: the role of every stored user record is admin or viewer.
C17_RolesClosed ==
    \A u \in DOMAIN users : users[u].role \in PageRoles

\* C18: update_user changes only the fields supplied: an omitted email or
\* role keeps the stored one, the password hash, the other users' records
\* and the attempt tracker stay as they were, and for a username without a
\* record it returns false and changes nothing, the audit log included.
C18_PartialUpdate ==
    \A u \in Usernames, e \in OptEmails, r \in OptRoles :
        LET t == update_user(State, u, e, r)
        IN  IF u \notin DOMAIN users THEN
                /\ t.last.ret = FALSE
                /\ t.users = users
                /\ t.attempts = attempts
                /\ t.audit = audit
            ELSE
                /\ t.last.ret = TRUE
                /\ DOMAIN t.users = DOMAIN users
                /\ t.users[u].email = IF e = PyNone THEN users[u].email ELSE e.v
                /\ t.users[u].role = IF r = PyNone THEN users[u].role ELSE r.v
                /\ t.users[u].password = users[u].password
                /\ \A v \in DOMAIN users \ {u} : t.users[v] = users[v]
                /\ t.attempts = attempts

\* an update with the role omitted has just changed the email of a user
\* with failed attempts recorded: the role is the one given at creation and
\* the password still verifies
C18_Witness ==
    /\ last = Call("update_user", last.username, TRUE)
    /\ users[last.username].email = EmailNew
    /\ users[last.username].role = "viewer"
    /\ audit[Len(audit)].msg[4] = PyNone
    /\ verify_password(current_pw[last.username], users[last.username].password)
    /\ Count(last.username) > 0

\* C19: unlock_user returns false and leaves the attempt tracker and the
\* audit log as they were exactly when the username has no attempt record;
\* with a record of any count it returns true, removes the record and
\* appends one audit entry, and a second unlock_user right after returns
\* false.
C19_UnlockNeedsRecord ==
    \A u \in Usernames, a \in Admins :
        LET t == unlock_user(State, u, a)
            t2 == unlock_user(t, u, a)
        IN  IF u \notin DOMAIN attempts THEN
                /\ t.last.ret = FALSE
                /\ t.attempts = attempts
                /\ t.audit = audit
            ELSE
                /\ t.last.ret = TRUE
                /\ DOMAIN t.attempts = DOMAIN attempts \ {u}
                /\ \A v \in DOMAIN t.attempts : t.attempts[v] = attempts[v]
                /\ Len(t.audit) = Len(audit) + 1
                /\ SubSeq(t.audit, 1, Len(audit)) = audit
                /\ t.audit[Len(t.audit)].msg = UnlockedBy(a, u)
                /\ t2.last.ret = FALSE
                /\ t2.attempts = t.attempts
                /\ t2.audit = t.audit

\* a user with exactly two failed logins recorded has just been unlocked,
\* and a second unlock would be refused
C19_Witness ==
    \E u \in DOMAIN users, a \in Admins :
        LET n == Len(audit)
        IN  /\ n >= 4
            /\ audit[n - 3].msg # FailedFor(u)
            /\ audit[n - 2].msg = FailedFor(u)
            /\ audit[n - 1].msg = FailedFor(u)
            /\ audit[n].msg = UnlockedBy(a, u)
            /\ last = Call("unlock_user", u, TRUE)
            /\ u \notin DOMAIN attempts
            /\ unlock_user(State, u, a).last.ret = FALSE

\* C20: get_locked_users returns exactly the usernames whose attempt count
\* is 3 or more, and a username is in it if and only if needs_captcha of the
\* username is true.
C20_LockedUsersListed ==
    /\ get_locked_users(State) = {u \in Usernames : Count(u) >= 3}
    /\ \A u \in Usernames :
        u \in get_locked_users(State) <=> needs_captcha(State, u) = PyTrue

\* after a failed login, one username is listed as locked and another has
\* an attempt record without being listed
C20_Witness ==
    /\ written > 0
    /\ last.op = "authenticate"
    /\ \E u, v \in DOMAIN attempts :
        /\ u \in get_locked_users(State)
        /\ v \notin get_locked_users(State)

\* C21: needs_captcha returns a boolean for every username: true when the
\* attempt count is 3 or more and false otherwise, a username without an
\* attempt record included.
C21_NeedsCaptchaIsBool ==
    \A u \in Usernames :
        needs_captcha(State, u) = (IF Count(u) >= 3 THEN PyTrue ELSE PyFalse)

\* C22: the audit log is append-only: across every step the log before is a
\* prefix of the log after, and every entry added carries a time later than
\* the time of every earlier write.
C22_AuditAppendOnly ==
    [][/\ Len(audit') >= Len(audit)
       /\ SubSeq(audit', 1, Len(audit)) = audit
       /\ \A i \in (Len(audit) + 1)..Len(audit') :
            /\ audit'[i].ts > clock
            /\ \A j \in 1..Len(audit) : audit[j].ts < audit'[i].ts]_vars

\* an entry has just been appended to a log that already held two or more
C22_Witness ==
    /\ written > 0
    /\ Len(audit) >= 3
    /\ audit[Len(audit)].ts = clock
    /\ audit[Len(audit) - 1].ts < clock

\* the messages of the audit entries that the call leading to t appended
Appended(t) ==
    [i \in 1..(Len(t.audit) - Len(audit)) |-> t.audit[Len(audit) + i].msg]

FailedForGhost(username) ==
    <<"Failed login attempt for non-existent username: ", username>>

\* what t has appended is exactly ok when the call returned true, and
\* nothing when it returned false
AuditsOnly(t, ok) ==
    /\ SubSeq(t.audit, 1, Len(audit)) = audit
    /\ Appended(t) = IF t.last.ret THEN <<ok>> ELSE <<>>

\* C23: each operation appends exactly the audit entries its outcome calls
\* for: an authenticate on an unlocked username one entry (success, failure,
\* or failure for a non-existent username only when there is no record),
\* each successful create_user, reset_password, admin_reset_password,
\* update_user and unlock_user one entry naming the user (and the admin),
\* and every operation that returns false none.
C23_AuditPerOutcome ==
    /\ \A u \in Usernames, p \in Passwords :
        LET t == authenticate(State, u, p)
        IN  /\ SubSeq(t.audit, 1, Len(audit)) = audit
            /\ Appended(t) =
                IF Locked(u) THEN <<>>
                ELSE IF t.last.ret.success THEN <<SucceededFor(u)>>
                ELSE IF u \in DOMAIN users THEN <<FailedFor(u)>>
                ELSE <<FailedForGhost(u)>>
    /\ \A u \in Usernames, e \in Emails, p \in Passwords, r \in Roles :
        AuditsOnly(create_user(State, u, e, p, r),
                   <<"User created: ", u, " (", r, ")">>)
    /\ \A u \in Usernames, p \in Passwords :
        AuditsOnly(reset_password(State, u, p),
                   <<"Password reset by user: ", u>>)
    /\ \A u \in Usernames, p \in Passwords, a \in Admins :
        AuditsOnly(admin_reset_password(State, u, p, a),
                   <<"Admin ", a, " reset password for user: ", u>>)
    /\ \A u \in Usernames, e \in OptEmails, r \in OptRoles :
        AuditsOnly(update_user(State, u, e, r),
                   <<"Updated user info: ", u, ", role=", r, ", email=", e>>)
    /\ \A u \in Usernames, a \in Admins :
        AuditsOnly(unlock_user(State, u, a), UnlockedBy(a, u))

\* a self-service reset has just succeeded and its entry is the last of
\* the log, while a reset with an invalid password would append nothing
C23_Witness ==
    /\ written > 0
    /\ last = Call("reset_password", last.username, TRUE)
    /\ audit[Len(audit)].msg = <<"Password reset by user: ", last.username>>
    /\ reset_password(State, last.username, PwShort).audit = audit

----------------------------------------------------------------------------
(* PasswordService.is_valid_password on its own: one call on a password   *)
(* made of any choice of characters, up to MaxPwLen long                   *)

\* characters at the ends of each class of the policy, and three outside
\* every class
PolicyChars == <<"A", "Z", "a", "z", "0", "9", "!", ">", "_", "-", " ">>

\* the password of length n that repeats the characters chosen
Repeat(chosen, n) ==
    LET cs == SelectSeq(PolicyChars, LAMBDA c : c \in chosen)
    IN  [i \in 1..n |-> cs[((i - 1) % Len(cs)) + 1]]

PolicyPasswords ==
    {Repeat(chosen, n) :
        chosen \in (SUBSET {PolicyChars[i] : i \in 1..Len(PolicyChars)}) \ {{}},
        n \in 0..MaxPwLen}

\* the stores play no part in a call of a pure function
StoresIdle ==
    /\ users = <<>>
    /\ attempts = <<>>
    /\ audit = <<>>
    /\ clock = 0
    /\ salts = 0
    /\ last = Call("init", "", PyNone)
    /\ current_pw = <<>>
    /\ streak = [u \in Usernames |-> 0]
    /\ written = 0
    /\ procs = <<>>
    /\ session_state = <<>>
    /\ page = <<>>

PolicyInit ==
    /\ StoresIdle
    /\ input \in PolicyPasswords
    /\ output = PyNone

IsValidPassword ==
    /\ output = PyNone
    /\ output' = PyBool(is_valid_password(input))
    /\ UNCHANGED <<users, attempts, audit, clock, salts, last, current_pw,
                   streak, written, input, procs, session_state, page>>

PolicyNext == IsValidPassword

PolicySpec == PolicyInit /\ [][PolicyNext]_vars

Chars(s) == {s[i] : i \in 1..Len(s)}

\* C24: is_valid_password(p) is true if and only if p has length at least 8
\* and contains an uppercase ASCII letter, a lowercase ASCII letter, a digit
\* and a character of the special set; a password missing one of the five
\* is rejected.
C24_PasswordPolicy ==
    output # PyNone =>
        output = PyBool(/\ Len(input) >= 8
                        /\ Chars(input) \cap UpperChars # {}
                        /\ Chars(input) \cap LowerChars # {}
                        /\ Chars(input) \cap DigitChars # {}
                        /\ Chars(input) \cap SpecialChars # {})

\* a password of length 8 with all four kinds of character was accepted
C24_Witness ==
    /\ output = PyTrue
    /\ Len(input) = 8
    /\ Cardinality(Chars(input)) = 4

----------------------------------------------------------------------------
(* CaptchaService *)

Whitespace == {" ", "\t", "\n", "\r"}
DecimalDigits == <<"0", "1", "2", "3", "4", "5", "6", "7", "8", "9">>

\* str.strip() as int() applies it to its argument
RECURSIVE lstrip(_)
lstrip(s) ==
    IF s # <<>> /\ Head(s) \in Whitespace THEN lstrip(Tail(s)) ELSE s

RECURSIVE rstrip(_)
rstrip(s) ==
    IF s # <<>> /\ s[Len(s)] \in Whitespace
    THEN rstrip(SubSeq(s, 1, Len(s) - 1)) ELSE s

strip(s) == rstrip(lstrip(s))

DigitValue(c) == (CHOOSE i \in 1..10 : DecimalDigits[i] = c) - 1

\* the value of a string of digits and underscores, read left to right
RECURSIVE Value(_, _)
Value(s, acc) ==
    IF s = <<>> THEN acc
    ELSE IF Head(s) = "_" THEN Value(Tail(s), acc)
    ELSE Value(Tail(s), 10 * acc + DigitValue(Head(s)))

\* digits, with single underscores allowed between two digits
IsDigits(s) ==
    /\ s # <<>>
    /\ \A i \in 1..Len(s) : s[i] \in DigitChars \cup {"_"}
    /\ s[1] # "_" /\ s[Len(s)] # "_"
    /\ \A i \in 1..(Len(s) - 1) : ~(s[i] = "_" /\ s[i + 1] = "_")

\* int(x): the integer, or the exception raised
int(x) ==
    IF x = PyNone THEN [exc |-> "TypeError"]
    ELSE LET t == strip(x.v)
             signed == t # <<>> /\ Head(t) \in {"+", "-"}
             body == IF signed THEN Tail(t) ELSE t
         IN  IF ~IsDigits(body) THEN [exc |-> "ValueError"]
             ELSE [exc |-> "",
                   v |-> IF signed /\ Head(t) = "-"
                         THEN 0 - Value(body, 0) ELSE Value(body, 0)]

Raised(exc) == [t |-> "raise", v |-> exc]

\* lets a TypeError through
validate_answer_value_error_only(x, y, answer) ==
    LET r == int(answer)
    IN  IF r.exc = "ValueError" THEN PyFalse
        ELSE IF r.exc # "" THEN Raised(r.exc)
        ELSE PyBool(r.v = x + y)

validate_answer(x, y, answer) ==
    LET r == int(answer)
    IN  IF r.exc \in {"ValueError", "TypeError"} THEN PyFalse
        ELSE IF r.exc # "" THEN Raised(r.exc)
        ELSE PyBool(r.v = x + y)

\* operands whose sums have one digit and two
Operands == {1, 6, 9}

AnswerChars == {" ", "+", "-", "_", "0", "1", "7", "a"}

Answers ==
    {PyNone} \cup
    {PyStr(s) : s \in UNION {[1..n -> AnswerChars] : n \in 0..MaxAnsLen}}

CaptchaInit ==
    /\ StoresIdle
    /\ input \in [x : Operands, y : Operands, answer : Answers]
    /\ output = PyNone

ValidateAnswer ==
    /\ output = PyNone
    /\ output' = validate_answer(input.x, input.y, input.answer)
    /\ UNCHANGED <<users, attempts, audit, clock, salts, last, current_pw,
                   streak, written, input, procs, session_state, page>>

CaptchaNext == ValidateAnswer

CaptchaSpec == CaptchaInit /\ [][CaptchaNext]_vars

\* the decimal digits of a natural number
RECURSIVE Decimal(_)
Decimal(n) ==
    IF n < 10 THEN <<DecimalDigits[n + 1]>>
    ELSE Append(Decimal(n \div 10), DecimalDigits[(n % 10) + 1])

RECURSIVE DropZeros(_)
DropZeros(s) ==
    IF Len(s) > 1 /\ Head(s) = "0" THEN DropZeros(Tail(s)) ELSE s

\* the trimmed answer is a numeral of n: an optional plus sign, then the
\* digits of n, possibly after zeros and with underscores between digits
Denotes(answer, n) ==
    /\ answer # PyNone
    /\ LET t == strip(answer.v)
           body == IF t # <<>> /\ Head(t) = "+" THEN Tail(t) ELSE t
       IN  /\ IsDigits(body)
           /\ DropZeros(SelectSeq(body, LAMBDA c : c # "_")) = Decimal(n)

\* C25: validate_answer(a, b, answer) returns true if and only if the
\* answer, trimmed of surrounding whitespace, parses as an integer equal to
\* a+b; for a non-numeric, empty or absent answer it returns false, and it
\* never raises.
C25_CaptchaAnswer ==
    output # PyNone =>
        output = PyBool(Denotes(input.answer, input.x + input.y))

\* a two-digit answer between two spaces was accepted
C25_Witness ==
    /\ output = PyTrue
    /\ input.answer # PyNone
    /\ Len(input.answer.v) = 4
    /\ input.answer.v[1] = " "
    /\ input.answer.v[4] = " "

\* C26: every stored attempt record has a count between 1 and 3: no record
\* is stored with count 0 and the count never passes 3, however many logins
\* are attempted while locked.
C26_CountInRange ==
    \A u \in DOMAIN attempts : attempts[u].count \in 1..3

\* a login on a username with count 3 has just been refused, the count is
\* still 3, and another username has a record with count 1
C26_Witness ==
    \E u, v \in DOMAIN attempts :
        /\ last = Call("authenticate", u, LockedResult)
        /\ attempts[u].count = 3
        /\ attempts[v].count = 1
        /\ written > 0

\* C30: a service operation invoked for username u leaves the user record
\* and the attempt record of every other username as they were, so it never
\* locks, unlocks or alters another username.
C30_UsernamesIndependent ==
    [][\A v \in Usernames \ {last'.username} :
        /\ find_by_username(users', v) = find_by_username(users, v)
        /\ get_attempts(attempts', v) = get_attempts(attempts, v)
        /\ Locked(v)' = Locked(v)]_vars

\* a failed login has just locked one username while another keeps its two
\* failed attempts and stays unlocked
C30_Witness ==
    \E u, v \in DOMAIN attempts :
        /\ u # v
        /\ written > 0
        /\ last.op = "authenticate"
        /\ last.username = u
        /\ last.ret.error_message = MsgInvalid
        /\ Locked(u)
        /\ attempts[v].count = 2

----------------------------------------------------------------------------
(* Overlapping requests: two service instances over the same files, as in  *)
(* test_concurrent_access_simulation.  A step is one load_data, one        *)
(* save_data or one log_event of the repositories; what a call computes    *)
(* between them is part of the step before.  In this specification streak  *)
(* counts the failed logins of a username since its attempt record was     *)
(* last cleared, without a cap.                                            *)

Procs == {1, 2}

IdleProc ==
    [pc |-> "idle", op |-> "", username |-> "", password |-> NoPassword,
     email |-> PyNone, role |-> PyNone, admin |-> "",
     user_data |-> PyNone,      \* what find_by_username returned
     attempt_data |-> PyNone,   \* the record _record_failed_attempt built
     data |-> <<>>,             \* the dict load_data returned to a save
     ret |-> PyNone,
     calls |-> 0,               \* calls this instance has begun
     seq |-> 0,                 \* history: position of the call among calls
     before |-> <<>>,           \* history: users.json when the call began
     overlapped |-> FALSE]      \* history: a call began during another's

CallsBegun == procs[1].calls + procs[2].calls

\* the call p is making has not returned
Running(p) == procs[p].pc \notin {"idle", "done"}

\* p begins a call: its locals are fresh
Begun(p, op, username, first) ==
    [IdleProc EXCEPT
        !.pc = first, !.op = op, !.username = username,
        !.calls = procs[p].calls + 1,
        !.seq = CallsBegun + 1,
        !.before = users,
        !.overlapped = procs[p].overlapped \/ \E q \in Procs \ {p} : Running(q)]

\* p returns ret
Returned(p, ret) == [procs[p] EXCEPT !.pc = "done", !.ret = ret]

\* instance 1 is the one that makes the first call
CanBegin(p) ==
    /\ ~Running(p)
    /\ CallsBegun < MaxCalls
    /\ p = 1 \/ procs[1].calls > 0

RacePasswords == {PwGood1, PwGood2}

\* the argument pairs of the overlapping update_user calls: email alone,
\* role alone, and the two full updates of the test
UpdateArgs ==
    {<<PyStr(EmailNew), PyNone>>, <<PyNone, PyStr("admin")>>,
     <<PyStr(EmailNew), PyStr("admin")>>, <<PyStr(EmailOk), PyStr("viewer")>>}

StoresQuiet ==
    UNCHANGED <<salts, last, current_pw, written, input, output,
                session_state, page>>

BeginAuthenticate(p) ==
    /\ CanBegin(p)
    /\ \E u \in Usernames, pw \in RacePasswords :
        procs' = [procs EXCEPT ![p] =
            [Begun(p, "authenticate", u, "is_locked") EXCEPT !.password = pw]]
    /\ UNCHANGED <<users, attempts, audit, clock, streak>>
    /\ StoresQuiet

BeginUpdateUser(p) ==
    /\ CanBegin(p)
    /\ \E u \in Usernames, a \in UpdateArgs :
        procs' = [procs EXCEPT ![p] =
            [Begun(p, "update_user", u, "upd_find") EXCEPT
                !.email = a[1], !.role = a[2]]]
    /\ UNCHANGED <<users, attempts, audit, clock, streak>>
    /\ StoresQuiet

BeginUnlockUser(p) ==
    /\ CanBegin(p)
    /\ \E u \in Usernames, a \in Admins :
        procs' = [procs EXCEPT ![p] =
            [Begun(p, "unlock_user", u, "unl_get") EXCEPT !.admin = a]]
    /\ UNCHANGED <<users, attempts, audit, clock, streak>>
    /\ StoresQuiet

\* goes on to the lookup whatever the tracker holds
IsAccountLockedSkipped(p) ==
    LET me == procs[p]
    IN  /\ me.pc = "is_locked"
        /\ procs' = [procs EXCEPT ![p] = [me EXCEPT !.pc = "find"]]
        /\ UNCHANGED <<users, attempts, audit, clock, streak>>
        /\ StoresQuiet

\* line 52: _is_account_locked reads the tracker; a locked username returns
IsAccountLocked(p) ==
    LET me == procs[p]
    IN  /\ me.pc = "is_locked"
        /\ procs' = [procs EXCEPT ![p] =
            IF Truthy(_is_account_locked(attempts, me.username))
            THEN Returned(p, LockedResult)
            ELSE [me EXCEPT !.pc = "find"]]
        /\ UNCHANGED <<users, attempts, audit, clock, streak>>
        /\ StoresQuiet

\* lines 60-70: find_by_username reads the credential store, then the
\* password is verified against the hash that was read
FindUser(p) ==
    LET me == procs[p]
        user_data == find_by_username(users, me.username)
        verified == user_data # PyNone
                    /\ verify_password(me.password, user_data.password)
    IN  /\ me.pc = "find"
        /\ procs' = [procs EXCEPT ![p] =
            [me EXCEPT !.user_data = user_data,
                       !.pc = IF verified THEN "clear_load" ELSE "rec_get"]]
        /\ streak' = IF verified THEN streak
                     ELSE [streak EXCEPT ![me.username] = @ + 1]
        /\ UNCHANGED <<users, attempts, audit, clock>>
        /\ StoresQuiet

\* lines 183-192: get_attempts reads the tracker and the new record is built
RecGet(p) ==
    LET me == procs[p]
        old == get_attempts(attempts, me.username)
        count == IF old # PyNone THEN old.count + 1 ELSE 1
    IN  /\ me.pc = "rec_get"
        /\ procs' = [procs EXCEPT ![p] =
            [me EXCEPT !.pc = "rec_load",
                       !.attempt_data =
                            [count |-> count, last_attempt |-> clock + 1]]]
        /\ clock' = clock + 1
        /\ UNCHANGED <<users, attempts, audit, streak>>
        /\ StoresQuiet

\* save_attempt, file_repository.py line 103: load_data
RecLoad(p) ==
    LET me == procs[p]
    IN  /\ me.pc = "rec_load"
        /\ procs' = [procs EXCEPT ![p] =
            [me EXCEPT !.pc = "rec_save", !.data = attempts]]
        /\ UNCHANGED <<users, attempts, audit, clock, streak>>
        /\ StoresQuiet

\* save_attempt, lines 104-105: the key is set in the dict that was loaded
\* and the dict is written back
RecSave(p) ==
    LET me == procs[p]
    IN  /\ me.pc = "rec_save"
        /\ attempts' = save_attempt(me.data, me.username, me.attempt_data)
        /\ procs' = [procs EXCEPT ![p] =
            [me EXCEPT !.pc = "auth_log", !.data = <<>>]]
        /\ UNCHANGED <<users, audit, clock, streak>>
        /\ StoresQuiet

\* lines 63-67 and 84: the failure is logged; for a username without a
\* record the call returns
AuthLog(p) ==
    LET me == procs[p]
    IN  /\ me.pc = "auth_log"
        /\ audit' = log_event(audit, clock + 1,
                IF me.user_data = PyNone THEN FailedForGhost(me.username)
                ELSE FailedFor(me.username))
        /\ clock' = clock + 1
        /\ procs' = [procs EXCEPT ![p] =
            IF me.user_data = PyNone
            THEN Returned(p,
                    AuthenticationResult(FALSE, PyNone, MsgInvalid, PyFalse))
            ELSE [me EXCEPT !.pc = "relock"]]
        /\ UNCHANGED <<users, attempts, streak>>
        /\ StoresQuiet

\* lines 85-89: _is_account_locked reads the tracker again for the result
Relock(p) ==
    LET me == procs[p]
    IN  /\ me.pc = "relock"
        /\ procs' = [procs EXCEPT ![p] =
            Returned(p, AuthenticationResult(FALSE, PyNone, MsgInvalid,
                            _is_account_locked(attempts, me.username)))]
        /\ UNCHANGED <<users, attempts, audit, clock, streak>>
        /\ StoresQuiet

\* clear_attempts, file_repository.py lines 109-110: load_data and the test
\* for the key
ClearLoad(p) ==
    LET me == procs[p]
    IN  /\ me.pc = "clear_load"
        /\ procs' = [procs EXCEPT ![p] =
            IF me.username \in DOMAIN attempts
            THEN [me EXCEPT !.pc = "clear_save", !.data = attempts]
            ELSE [me EXCEPT !.pc = "clear_log"]]
        /\ UNCHANGED <<users, attempts, audit, clock, streak>>
        /\ StoresQuiet

\* clear_attempts, lines 111-112: the key is deleted from the dict that was
\* loaded and the dict is written back
ClearSave(p) ==
    LET me == procs[p]
    IN  /\ me.pc = "clear_save"
        /\ attempts' = Del(me.data, me.username)
        /\ streak' = [streak EXCEPT ![me.username] = 0]
        /\ procs' = [procs EXCEPT ![p] =
            [me EXCEPT !.pc = "clear_log", !.data = <<>>]]
        /\ UNCHANGED <<users, audit, clock>>
        /\ StoresQuiet

\* auth_service.py lines 73-80 and 159-160: the success or the unlock is
\* logged and the call returns
ClearLog(p) ==
    LET me == procs[p]
    IN  /\ me.pc = "clear_log"
        /\ audit' = log_event(audit, clock + 1,
                IF me.op = "authenticate" THEN SucceededFor(me.username)
                ELSE UnlockedBy(me.admin, me.username))
        /\ clock' = clock + 1
        /\ procs' = [procs EXCEPT ![p] =
            Returned(p,
                IF me.op = "authenticate"
                THEN AuthenticationResult(TRUE,
                        User(me.username, me.user_data.email,
                             me.user_data.role, me.user_data.password),
                        PyNone, PyFalse)
                ELSE TRUE)]
        /\ UNCHANGED <<users, attempts, streak>>
        /\ StoresQuiet

\* sets an empty email in the record read when the email is omitted
UpdFindBlanksEmail(p) ==
    LET me == procs[p]
        user_data == find_by_username(users, me.username)
        with_email == [user_data EXCEPT
                          !.email = IF me.email # PyNone THEN me.email.v
                                    ELSE <<>>]
        with_role == IF me.role # PyNone /\ me.role.v # ""
                     THEN [with_email EXCEPT !.role = me.role.v]
                     ELSE with_email
    IN  /\ me.pc = "upd_find"
        /\ procs' = [procs EXCEPT ![p] =
            IF user_data = PyNone THEN Returned(p, FALSE)
            ELSE [me EXCEPT !.pc = "upd_load", !.user_data = with_role]]
        /\ UNCHANGED <<users, attempts, audit, clock, streak>>
        /\ StoresQuiet

\* update_user, auth_service.py lines 127-134: find_by_username reads the
\* credential store and the fields supplied are set in the record read
UpdFind(p) ==
    LET me == procs[p]
        user_data == find_by_username(users, me.username)
        with_email == IF me.email # PyNone /\ me.email.v # <<>>
                      THEN [user_data EXCEPT !.email = me.email.v]
                      ELSE user_data
        with_role == IF me.role # PyNone /\ me.role.v # ""
                     THEN [with_email EXCEPT !.role = me.role.v]
                     ELSE with_email
    IN  /\ me.pc = "upd_find"
        /\ procs' = [procs EXCEPT ![p] =
            IF user_data = PyNone THEN Returned(p, FALSE)
            ELSE [me EXCEPT !.pc = "upd_load", !.user_data = with_role]]
        /\ UNCHANGED <<users, attempts, audit, clock, streak>>
        /\ StoresQuiet

\* save_user, file_repository.py line 68: load_data
UpdLoad(p) ==
    LET me == procs[p]
    IN  /\ me.pc = "upd_load"
        /\ procs' = [procs EXCEPT ![p] =
            [me EXCEPT !.pc = "upd_save", !.data = users]]
        /\ UNCHANGED <<users, attempts, audit, clock, streak>>
        /\ StoresQuiet

\* save_user, lines 69-70: the key is set in the dict that was loaded and
\* the dict is written back
UpdSave(p) ==
    LET me == procs[p]
    IN  /\ me.pc = "upd_save"
        /\ users' = save_user(me.data, me.username, me.user_data)
        /\ procs' = [procs EXCEPT ![p] =
            [me EXCEPT !.pc = "upd_log", !.data = <<>>]]
        /\ UNCHANGED <<attempts, audit, clock, streak>>
        /\ StoresQuiet

\* auth_service.py lines 137-138
UpdLog(p) ==
    LET me == procs[p]
    IN  /\ me.pc = "upd_log"
        /\ audit' = log_event(audit, clock + 1,
                <<"Updated user info: ", me.username, ", role=", me.role,
                  ", email=", me.email>>)
        /\ clock' = clock + 1
        /\ procs' = [procs EXCEPT ![p] = Returned(p, TRUE)]
        /\ UNCHANGED <<users, attempts, streak>>
        /\ StoresQuiet

\* unlock_user, auth_service.py lines 156-157 and 161: get_attempts reads
\* the tracker; without a record the call returns False
UnlGet(p) ==
    LET me == procs[p]
    IN  /\ me.pc = "unl_get"
        /\ procs' = [procs EXCEPT ![p] =
            IF get_attempts(attempts, me.username) = PyNone
            THEN Returned(p, FALSE)
            ELSE [me EXCEPT !.pc = "clear_load"]]
        /\ UNCHANGED <<users, attempts, audit, clock, streak>>
        /\ StoresQuiet

\* the stores before the requests: one user with two failed logins, and
\* with two more for a username without a record
ConcInit ==
    /\ \E f \in {TwoFailures, TwoFailuresEach} :
        /\ users = f.users
        /\ attempts = f.attempts
        /\ audit = f.audit
        /\ clock = f.clock
        /\ salts = f.salts
        /\ last = f.last
        /\ current_pw = f.current_pw
        /\ streak = f.streak
    /\ written = 0
    /\ input = PyNone
    /\ output = PyNone
    /\ procs = [p \in Procs |-> IdleProc]
    /\ session_state = <<>>
    /\ page = <<>>

ConcNext ==
    \E p \in Procs :
        \/ BeginAuthenticate(p)
        \/ BeginUpdateUser(p)
        \/ BeginUnlockUser(p)
        \/ IsAccountLocked(p)
        \/ FindUser(p)
        \/ RecGet(p)
        \/ RecLoad(p)
        \/ RecSave(p)
        \/ AuthLog(p)
        \/ Relock(p)
        \/ ClearLoad(p)
        \/ ClearSave(p)
        \/ ClearLog(p)
        \/ UpdFind(p)
        \/ UpdLoad(p)
        \/ UpdSave(p)
        \/ UpdLog(p)
        \/ UnlGet(p)

ConcSpec == ConcInit /\ [][ConcNext]_vars

\* C27 as stated: under any interleaving of authenticate calls, at most 3
\* failed logins are made on a username between two clears of its attempt
\* record, and the stored count never exceeds 3.
C27_LockoutBoundsGuessing ==
    \A u \in Usernames : streak[u] <= 3 /\ Count(u) <= 3

\* no call has begun while another was running
NoOverlap == \A p \in Procs : ~procs[p].overlapped

\* C27: as long as no two calls overlap, at most 3 failed logins are made
\* on a username between two clears of its attempt record, and the stored
\* count never exceeds 3.
C27_LockoutBoundsSequentialGuessing ==
    NoOverlap =>
        \A u \in Usernames : streak[u] <= 3 /\ Count(u) <= 3

\* two calls have run one after the other: the third failed login locked
\* the user and the next login was refused
C27_Witness ==
    /\ NoOverlap
    /\ CallsBegun = 2
    /\ \E u \in DOMAIN users, p \in Procs :
        /\ streak[u] = 3
        /\ Count(u) = 3
        /\ procs[p].pc = "done"
        /\ procs[p].username = u
        /\ procs[p].ret = LockedResult

\* C28: with two writers on the same store, a write for one username never
\* undoes or drops the completed save_user, save_attempt or clear_attempts
\* of another username: a step changes the record of a username only when
\* the call taking the step is for that username.
C28_OnlySameKeyLost ==
    [][\A v \in Usernames :
        (\/ get_attempts(attempts', v) # get_attempts(attempts, v)
         \/ find_by_username(users', v) # find_by_username(users, v)) =>
            \E p \in Procs : procs'[p] # procs[p] /\ procs[p].username = v]_vars

\* the two calls of the behaviour were update_user calls for u that have
\* both returned True
BothUpdated(u) ==
    /\ CallsBegun = 2
    /\ \A p \in Procs :
        /\ procs[p].pc = "done"
        /\ procs[p].op = "update_user"
        /\ procs[p].username = u
        /\ procs[p].ret = TRUE

\* the instance whose call began first, and the credential store then
First == CHOOSE p \in Procs : procs[p].seq = 1
StoreBefore == procs[First].before

\* the record of u after the call of p and then the call of q, one after
\* the other, from the store before both
InOrder(u, p, q) ==
    LET s0 == [State EXCEPT !.users = StoreBefore]
        s1 == update_user(s0, u, procs[p].email, procs[p].role)
        s2 == update_user(s1, u, procs[q].email, procs[q].role)
    IN  s2.users[u]

Intact(u) ==
    /\ u \in DOMAIN users
    /\ DOMAIN users[u] = {"password", "email", "role"}
    /\ users[u].password = StoreBefore[u].password
    /\ verify_password(current_pw[u], users[u].password)

\* C29 as stated: after two update_user calls on the same username through
\* two instances, under every interleaving, the record equals the one left
\* by running the calls one after the other in one of the two orders, has
\* password, email and role, and keeps its password hash.
C29_UpdatesSerialize ==
    \A u \in Usernames :
        BothUpdated(u) =>
            /\ Intact(u)
            /\ users[u] \in {InOrder(u, 1, 2), InOrder(u, 2, 1)}

Supplied(p) == procs[p].email # PyNone /\ procs[p].role # PyNone

\* C29: after two update_user calls on the same username through two
\* instances, under every interleaving, the record has password, email and
\* role, keeps its password hash, and holds in each field the value before
\* the calls or a value one of the calls supplied; when both calls supply
\* email and role it equals the record left by running the calls one after
\* the other in one of the two orders.
C29_FullUpdatesSerialize ==
    \A u \in Usernames :
        BothUpdated(u) =>
            /\ Intact(u)
            /\ users[u].email \in
                {StoreBefore[u].email} \cup
                {procs[p].email.v : p \in {q \in Procs : procs[q].email # PyNone}}
            /\ users[u].role \in
                {StoreBefore[u].role} \cup
                {procs[p].role.v : p \in {q \in Procs : procs[q].role # PyNone}}
            /\ (\A p \in Procs : Supplied(p)) =>
                users[u] \in {InOrder(u, 1, 2), InOrder(u, 2, 1)}

\* two overlapping calls that supplied different emails and roles have
\* returned, and the record holds what the call that began first supplied
C29_Witness ==
    \E u \in Usernames :
        /\ BothUpdated(u)
        /\ ~NoOverlap
        /\ \A p \in Procs : Supplied(p)
        /\ procs[1].email # procs[2].email
        /\ procs[1].role # procs[2].role
        /\ users[u].email = procs[First].email.v
        /\ users[u].role = procs[First].role.v

----------------------------------------------------------------------------
(* The credential store under the service operations, one call at a time *)

\* C31: authenticate and unlock_user never modify the credential store: in
\* every branch the user records after the call are those before it.
C31_LoginAndUnlockKeepUsers ==
    /\ \A u \in Usernames, p \in Passwords :
        authenticate(State, u, p).users = users
    /\ \A u \in Usernames, a \in Admins :
        unlock_user(State, u, a).users = users

\* a user with failed logins recorded has just been unlocked, and the
\* password set before still verifies against the stored hash
C31_Witness ==
    /\ written > 0
    /\ last = Call("unlock_user", last.username, TRUE)
    /\ last.username \in DOMAIN users
    /\ verify_password(current_pw[last.username], users[last.username].password)
    /\ authenticate(State, last.username, current_pw[last.username]).last.ret.success

\* C32: the usernames of the credential store only grow: no operation
\* removes a record, and a record is added only by a create_user that
\* returns true, for its own username.
C32_UsersOnlyGrow ==
    [][/\ DOMAIN users \subseteq DOMAIN users'
       /\ DOMAIN users' # DOMAIN users =>
            /\ last' = Call("create_user", last'.username, TRUE)
            /\ DOMAIN users' = DOMAIN users \cup {last'.username}
            /\ last'.username \notin DOMAIN users]_vars

\* a second user has just been created, and a password reset for a
\* username without a record would add none
C32_Witness ==
    /\ written > 0
    /\ last = Call("create_user", last.username, TRUE)
    /\ Cardinality(DOMAIN users) = 2
    /\ \A p \in Passwords, a \in Admins :
        /\ DOMAIN reset_password(State, last.username, p).users = DOMAIN users
        /\ DOMAIN admin_reset_password(State, last.username, p, a).users
                = DOMAIN users

\* the positions of the "User created" entries for username in the log
Creations(username) ==
    {i \in 1..Len(audit) :
        /\ audit[i].msg[1] = "User created: "
        /\ audit[i].msg[2] = username}

\* C33: from empty stores and an empty log, the log holds exactly one
\* "User created" entry for each username of the credential store and none
\* for any other username.
C33_OneCreationEntryPerUser ==
    \A u \in Usernames :
        Cardinality(Creations(u)) = IF u \in DOMAIN users THEN 1 ELSE 0

\* a second user has just been created after other entries were logged,
\* and each of the two users has its entry
C33_Witness ==
    /\ written > 0
    /\ last = Call("create_user", last.username, TRUE)
    /\ Len(audit) > 2
    /\ Creations(last.username) = {Len(audit)}
    /\ \E v \in DOMAIN users \ {last.username} : Creations(v) = {1}


----------------------------------------------------------------------------
(* The pages of one browser session.  A script run is a function of the     *)
(* stores, of st.session_state and of the values of the widgets; it yields  *)
(* the stores and the session after it, what it put on the screen, and the  *)
(* service operations it called.                                            *)

\* script runs begun by the user in one behaviour
MaxRuns == 3

\* the run so far: stores s, session ss, the screen, the calls made, the
\* challenges drawn, and whether st.rerun() was called
Run(s, ss) ==
    [s |-> s, ss |-> ss, rendered |-> <<>>, calls |-> <<>>, generated |-> 0,
     rerun |-> FALSE]

Say(r, text) == [r EXCEPT !.rendered = Append(@, text)]
Invoke(r, op) == [r EXCEPT !.calls = Append(@, op)]

\* the widgets: the button pressed in this run, by its key or else its label,
\* and the values typed or selected; a widget left alone holds "" or the
\* empty sequence
NoInput ==
    [button |-> "", username |-> "", password |-> <<>>, captcha |-> <<>>,
     reset_user |-> "", new_pass |-> <<>>,
     selected |-> "", email_update |-> <<>>, role_update |-> "viewer",
     resetpw_user |-> "", resetpw_val |-> <<>>, unlock |-> "",
     newuser_name |-> "", newuser_email |-> <<>>, newuser_pw |-> <<>>,
     newuser_role |-> "admin"]

\* generate_challenge: two draws of random.randint(1, 9); three of the pairs
generate_challenge == {<<1, 6>>, <<9, 6>>, <<9, 9>>}

\* str.lower() on the role names
lower(str) ==
    CASE str \in {"Admin", "ADMIN"} -> "admin"
      [] str \in {"Viewer", "VIEWER"} -> "viewer"
      [] OTHER -> str

is_admin(user) == lower(user.role) = "admin"
is_viewer(user) == lower(user.role) = "viewer"

_initialize_session_state(ss) ==
    LET a == IF "authenticated" \in DOMAIN ss THEN ss
             ELSE Put(ss, "authenticated", FALSE)
    IN  IF "current_user" \in DOMAIN a THEN a
        ELSE Put(a, "current_user", PyNone)

\* st.session_state.get("authenticated", False)
_is_authenticated(ss) ==
    IF "authenticated" \in DOMAIN ss THEN ss["authenticated"] ELSE FALSE

\* st.session_state.get("current_user")
_get_current_user(ss) ==
    IF "current_user" \in DOMAIN ss THEN ss["current_user"] ELSE PyNone

\* st.session_state.captcha_x, st.session_state.captcha_y = drawn
NewChallenge(r, drawn) ==
    [r EXCEPT
        !.ss = Put(Put(@, "captcha_x", drawn[1]), "captcha_y", drawn[2]),
        !.generated = @ + 1]

----------------------------------------------------------------------------
(* LoginPage *)

_render_captcha(r, drawn) ==
    Say(IF "captcha_x" \notin DOMAIN r.ss THEN NewChallenge(r, drawn) ELSE r,
        "CAPTCHA")

\* "username and self.auth_service.needs_captcha(username)"
CaptchaNeeded(r, username) ==
    username # "" /\ Truthy(needs_captcha(r.s, username))

AskedCaptcha(r, username) ==
    IF username # "" THEN Invoke(r, "needs_captcha") ELSE r

\* lines 65-78 with a result that is no success
LoginFailed(r, result, drawn) ==
    LET shown == Say(r, IF result.error_message # PyNone
                           /\ result.error_message.v # ""
                        THEN result.error_message.v ELSE "Login failed")
    IN  IF Truthy(result.requires_captcha) THEN NewChallenge(shown, drawn)
        ELSE shown

\* lines 65-78 with a success
LoginSucceeded(r, result) ==
    [Say(r, "Access granted! Redirecting...") EXCEPT
        !.ss = Put(Put(@, "authenticated", TRUE), "current_user", result.user),
        !.rerun = TRUE]

\* asks for no CAPTCHA at all
_handle_login_without_captcha(r, username, password, captcha_answer, drawn) ==
    LET t == authenticate(r.s, username, password)
        called == [Invoke(r, "authenticate") EXCEPT !.s = t]
    IN  IF t.last.ret.success THEN LoginSucceeded(called, t.last.ret)
        ELSE LoginFailed(called, t.last.ret, drawn)

_handle_login(r, username, password, captcha_answer, drawn) ==
    LET asked == AskedCaptcha(r, username)
        t == authenticate(r.s, username, password)
        called == [Invoke(asked, "authenticate") EXCEPT !.s = t]
    IN  IF /\ CaptchaNeeded(r, username)
           /\ \/ captcha_answer = PyNone
              \/ captcha_answer.v = <<>>
              \/ validate_answer(r.ss["captcha_x"], r.ss["captcha_y"],
                                 captcha_answer) # PyTrue
        THEN NewChallenge(Say(asked, "CAPTCHA incorrect. Please try again."),
                          drawn)
        ELSE IF t.last.ret.success THEN LoginSucceeded(called, t.last.ret)
        ELSE LoginFailed(called, t.last.ret, drawn)

\* drawn: what the first and the second call of generate_challenge return
_render_login_tab(r, w, drawn) ==
    LET asked == AskedCaptcha(r, w.username)
        shown == IF CaptchaNeeded(r, w.username)
                 THEN _render_captcha(asked, drawn[1]) ELSE asked
        captcha_answer == IF CaptchaNeeded(r, w.username)
                          THEN PyStr(w.captcha) ELSE PyNone
    IN  IF w.button = "Login"
        THEN _handle_login(shown, w.username, w.password, captcha_answer,
                           drawn[2])
        ELSE shown

_render_reset_tab(r, w) ==
    LET warned == IF w.new_pass # <<>> /\ ~is_valid_password(w.new_pass)
                  THEN Say(r, "Password must be at least 8 characters")
                  ELSE r
        t == reset_password(r.s, w.reset_user, w.new_pass)
        called == [Invoke(warned, "reset_password") EXCEPT !.s = t]
    IN  IF w.button = "Reset Password" /\ w.reset_user # ""
           /\ w.new_pass # <<>>
        THEN Say(called, IF t.last.ret THEN "Password reset successful."
                         ELSE "Password reset failed.")
        ELSE warned

LoginPage_render(r, w, drawn) ==
    LET login_tab == _render_login_tab(Say(r, "Login"), w, drawn)
    IN  IF login_tab.rerun THEN login_tab
        ELSE _render_reset_tab(login_tab, w)


----------------------------------------------------------------------------
(* AdminPage *)

_render_audit_log_section(r) ==
    LET asked == Invoke(r, "log_exists")
    IN  IF Len(r.s.audit) > 0
        THEN Say(Invoke(asked, "get_log_content"), "Audit Log")
        ELSE Say(asked, "No audit log available.")

_render_user_management_section(r, w) ==
    LET shown == Say(Invoke(r, "get_all_users"), "User Role Management")
        t == update_user(r.s, w.selected, PyStr(w.email_update),
                         PyStr(w.role_update))
        called == [Invoke(shown, "update_user") EXCEPT !.s = t]
    IN  IF w.selected # "" /\ w.button = "Update User Info"
        THEN Say(called, IF t.last.ret THEN "Updated info"
                         ELSE "Failed to update user info")
        ELSE shown

_render_password_reset_section(r, current_user, w) ==
    LET shown == Say(Invoke(r, "get_all_users"), "Admin Reset User Password")
        warned == IF w.resetpw_val # <<>> /\ ~is_valid_password(w.resetpw_val)
                  THEN Say(shown, "Password must be at least 8 characters")
                  ELSE shown
        t == admin_reset_password(r.s, w.resetpw_user, w.resetpw_val,
                                  current_user.username)
        called == [Invoke(warned, "admin_reset_password") EXCEPT !.s = t]
    IN  IF w.button = "resetpw_btn" /\ w.resetpw_user # ""
           /\ w.resetpw_val # <<>>
        THEN Say(called, IF t.last.ret THEN "Password has been reset."
                         ELSE "Failed to reset password")
        ELSE warned

_render_unlock_accounts_section(r, current_user, w) ==
    LET shown == Say(Invoke(r, "get_locked_users"), "Unlock Locked Accounts")
        t == unlock_user(r.s, w.unlock, current_user.username)
        called == [Invoke(shown, "unlock_user") EXCEPT !.s = t]
    IN  IF get_locked_users(r.s) = {} THEN
            Say(shown, "No locked users currently.")
        ELSE IF w.button # "Unlock User" THEN
            shown
        ELSE IF t.last.ret THEN
            [Say(called, "has been unlocked.") EXCEPT !.rerun = TRUE]
        ELSE
            Say(called, "Failed to unlock user")

_render_create_user_section(r, w) ==
    LET shown == Say(r, "Create New User")
        warned == IF w.newuser_pw # <<>> /\ ~is_valid_password(w.newuser_pw)
                  THEN Say(shown, "Password must be at least 8 characters")
                  ELSE shown
        t == create_user(r.s, w.newuser_name, w.newuser_email, w.newuser_pw,
                         w.newuser_role)
        called == [Invoke(warned, "create_user") EXCEPT !.s = t]
    IN  IF w.button = "newuser_btn" /\ w.newuser_name # ""
           /\ w.newuser_pw # <<>> /\ w.newuser_email # <<>>
        THEN Say(called, IF t.last.ret THEN "User created"
                         ELSE "Failed to create user.")
        ELSE warned

\* the sections in the order render calls them
Sections(r, current_user, w) ==
    LET unlocked ==
            _render_unlock_accounts_section(
                _render_password_reset_section(
                    _render_user_management_section(
                        _render_audit_log_section(Say(r, "Admin Panel")), w),
                    current_user, w),
                current_user, w)
    IN  IF unlocked.rerun THEN unlocked
        ELSE _render_create_user_section(unlocked, w)

\* shows the panel to every user that is logged in
AdminPage_render_any_user(r, current_user, w) ==
    IF current_user = PyNone THEN r ELSE Sections(r, current_user, w)

AdminPage_render(r, current_user, w) ==
    IF current_user = PyNone \/ ~is_admin(current_user) THEN r
    ELSE Sections(r, current_user, w)

----------------------------------------------------------------------------
(* ClinicalTimelineApp *)

\* forgets the challenge but stays logged in
_logout_keeps_user(r) ==
    [r EXCEPT !.ss = Del(Del(@, "captcha_x"), "captcha_y"), !.rerun = TRUE]

_logout(r) ==
    LET current_user == _get_current_user(r.ss)
        logged == IF current_user = PyNone THEN r
                  ELSE [r EXCEPT
                          !.s.audit = log_event(r.s.audit, now(r.s, 1),
                              <<"User logged out: ", current_user.username>>),
                          !.s.clock = now(r.s, 1)]
    IN  [logged EXCEPT
            !.ss = Del(Del(Put(Put(@, "authenticated", FALSE),
                               "current_user", PyNone),
                           "captcha_x"), "captcha_y"),
            !.rerun = TRUE]

_render_main_app(r, w) ==
    LET current_user == _get_current_user(r.ss)
        header == Say(r, "Clinical Timeline App")
        timeline == Say(header, "Timeline")
    IN  IF current_user # PyNone /\ w.button = "logout_btn" THEN
            _logout(header)
        ELSE IF current_user # PyNone /\ is_admin(current_user) THEN
            AdminPage_render(timeline, current_user, w)
        ELSE IF current_user # PyNone /\ is_viewer(current_user) THEN
            Say(timeline, "Viewer Dashboard")
        ELSE
            timeline

\* one run of the script: setup_environment, then run
Script(r, w, drawn) ==
    LET ready == [r EXCEPT !.ss = _initialize_session_state(@)]
    IN  IF ~_is_authenticated(ready.ss) THEN LoginPage_render(ready, w, drawn)
        ELSE _render_main_app(ready, w)

\* the run the user begins, and the run that st.rerun() begins after it with
\* no button pressed: the widgets of a page that was not on the screen are
\* new, those of a page that was keep their values
main(r, w, drawn) ==
    LET first == Script(r, w, drawn)
        login == ~_is_authenticated(_initialize_session_state(r.ss))
        again == IF login = ~_is_authenticated(first.ss)
                 THEN [w EXCEPT !.button = ""] ELSE NoInput
    IN  IF first.rerun
        THEN Script([first EXCEPT !.rendered = <<>>, !.rerun = FALSE],
                    again, drawn)
        ELSE first


----------------------------------------------------------------------------
(* Specification of one browser session: the user opens the page, types,   *)
(* and presses the buttons that are on the screen.  The stores hold an     *)
(* admin and a viewer, as create_user leaves them, and the failed logins   *)
(* that three presses of Login leave.                                      *)

LoginNames == {"", "alice", "root"}
LoginPasswords == {PwGood1, PwGood2}
Typed == {<<>>, <<"7">>, <<" ", "7">>, <<"1", "5">>, <<"x">>}

RECURSIVE FailedClicks(_, _, _)
FailedClicks(s, username, n) ==
    IF n = 0 THEN s
    ELSE LET r == FailedClicks(s, username, n - 1)
         IN  authenticate(r, username, PwGood2)

Staff ==
    LET admin == create_user(Empty, "root", EmailOk, PwGood1, "admin")
    IN  create_user(admin, "alice", EmailOk, PwGood1, "viewer")

\* the stores as they are, with the viewer locked out, and after Login was
\* pressed three times with the username left empty; a session not begun
SessionInit ==
    /\ \E f \in {Staff, FailedClicks(Staff, "alice", LockThreshold),
                  FailedClicks(Staff, "", LockThreshold)} :
        /\ users = f.users
        /\ attempts = f.attempts
        /\ audit = f.audit
        /\ clock = f.clock
        /\ salts = f.salts
        /\ last = f.last
        /\ current_pw = f.current_pw
        /\ streak = f.streak
    /\ written = 0
    /\ input = PyNone
    /\ output = PyNone
    /\ procs = <<>>
    /\ session_state = <<>>
    /\ page = [run |-> 0, button |-> "", before |-> <<>>, rendered |-> <<>>,
               calls |-> <<>>, generated |-> 0]

\* the run begun with the widgets w, while fewer than MaxRuns were begun
Browse(w) ==
    /\ page.run < MaxRuns
    /\ \E r \in {main(Run(State, session_state), w, drawn) :
                    drawn \in generate_challenge \X generate_challenge} :
        /\ users' = r.s.users
        /\ attempts' = r.s.attempts
        /\ audit' = r.s.audit
        /\ clock' = r.s.clock
        /\ salts' = r.s.salts
        /\ last' = r.s.last
        /\ written' = written + (Len(r.s.audit) - Len(audit))
        /\ session_state' = r.ss
        /\ page' = [run |-> page.run + 1, button |-> w.button,
                    before |-> session_state, rendered |-> r.rendered,
                    calls |-> r.calls, generated |-> r.generated]
    /\ UNCHANGED <<current_pw, streak, input, output, procs>>

LoggedIn == _is_authenticated(session_state)
AdminLoggedIn ==
    /\ LoggedIn
    /\ _get_current_user(session_state) # PyNone
    /\ is_admin(_get_current_user(session_state))

\* the page opened or redrawn, a username typed into the login form
Visit ==
    \E u \in LoginNames : Browse([NoInput EXCEPT !.username = u])

ClickLogin ==
    /\ ~LoggedIn
    /\ \E u \in LoginNames, p \in LoginPasswords, c \in Typed :
        Browse([NoInput EXCEPT !.button = "Login", !.username = u,
                               !.password = p, !.captcha = c])

ClickResetPassword ==
    /\ ~LoggedIn
    /\ \E u \in LoginNames, p \in {PwGood2, PwShort} :
        Browse([NoInput EXCEPT !.button = "Reset Password",
                               !.reset_user = u, !.new_pass = p])

ClickLogout ==
    /\ LoggedIn
    /\ _get_current_user(session_state) # PyNone
    /\ Browse([NoInput EXCEPT !.button = "logout_btn"])

ClickUpdateUser ==
    /\ AdminLoggedIn
    /\ \E u \in DOMAIN users, e \in {<<>>, EmailNew}, role \in PageRoles :
        Browse([NoInput EXCEPT !.button = "Update User Info",
                               !.selected = u, !.email_update = e,
                               !.role_update = role])

ClickAdminReset ==
    /\ AdminLoggedIn
    /\ \E u \in DOMAIN users \ {_get_current_user(session_state).username},
          p \in {PwGood2, PwShort} :
        Browse([NoInput EXCEPT !.button = "resetpw_btn",
                               !.resetpw_user = u, !.resetpw_val = p])

ClickUnlockUser ==
    /\ AdminLoggedIn
    /\ \E u \in get_locked_users(State) :
        Browse([NoInput EXCEPT !.button = "Unlock User", !.unlock = u])

ClickCreateUser ==
    /\ AdminLoggedIn
    /\ \E u \in {"alice", "bob"}, e \in Emails, role \in PageRoles :
        Browse([NoInput EXCEPT !.button = "newuser_btn", !.newuser_name = u,
                               !.newuser_email = e, !.newuser_pw = PwGood2,
                               !.newuser_role = role])

SessionNext ==
    \/ Visit
    \/ ClickLogin
    \/ ClickResetPassword
    \/ ClickLogout
    \/ ClickUpdateUser
    \/ ClickAdminReset
    \/ ClickUnlockUser
    \/ ClickCreateUser

SessionSpec == SessionInit /\ [][SessionNext]_vars


----------------------------------------------------------------------------
(* Properties of the pages and the session *)

Called(calls, op) == \E i \in 1..Len(calls) : calls[i] = op
Shown(rendered, text) == \E i \in 1..Len(rendered) : rendered[i] = text

\* the answer is missing, or does not validate against the challenge the
\* session holds
Unanswered(ss, answer) ==
    \/ answer = PyNone
    \/ answer.v = <<>>
    \/ /\ "captcha_x" \in DOMAIN ss
       /\ validate_answer(ss["captcha_x"], ss["captcha_y"], answer) # PyTrue

\* the run r of the handler refused the login: authenticate was not called,
\* the stores are as they were, the session is not authenticated, and the
\* challenge held is the one drawn in this run
Refused(r, drawn) ==
    /\ ~Called(r.calls, "authenticate")
    /\ r.s = State
    /\ ~_is_authenticated(r.ss)
    /\ r.generated = 1
    /\ "captcha_x" \in DOMAIN r.ss /\ r.ss["captcha_x"] = drawn[1]
    /\ "captcha_y" \in DOMAIN r.ss /\ r.ss["captcha_y"] = drawn[2]

\* the login handler refuses every login with one of usernames that needs a
\* CAPTCHA and comes without a valid answer; the answers it can be given are
\* None when no CAPTCHA was on the screen, else the text typed, which is
\* empty unless the session holds a challenge
RefusesUnanswered(usernames) ==
    ~LoggedIn =>
        \A u \in usernames, p \in LoginPasswords,
           a \in {PyNone} \cup {PyStr(c) : c \in Typed},
           drawn \in generate_challenge :
            /\ Truthy(needs_captcha(State, u))
            /\ a # PyNone /\ a.v # <<>> => "captcha_x" \in DOMAIN session_state
            /\ Unanswered(session_state, a)
            => Refused(_handle_login(Run(State, session_state), u, p, a,
                                     drawn), drawn)

\* C34 as stated: when the submitted username needs a CAPTCHA and the answer
\* is missing or does not validate against the challenge held in the
\* session, the login handler does not call authenticate, records and audits
\* nothing, leaves the session unauthenticated and replaces the held
\* challenge by a newly generated one.  The handler asks for no CAPTCHA when
\* the username is empty: it calls authenticate.
C34_CaptchaGatesLogin == RefusesUnanswered(LoginNames)

\* C34, amended: the same of every submitted username that is not empty
C34_CaptchaGatesNamedLogin == RefusesUnanswered(LoginNames \ {""})

\* Login was pressed for a locked username with a wrong answer to the
\* challenge the session held: the run called needs_captcha only, showed the
\* CAPTCHA error, and drew a new challenge
C34_Witness ==
    /\ page.button = "Login"
    /\ "captcha_x" \in DOMAIN page.before
    /\ Shown(page.rendered, "CAPTCHA incorrect. Please try again.")
    /\ ~Called(page.calls, "authenticate")
    /\ page.generated = 1
    /\ ~LoggedIn
    /\ written = 0

\* C35: in every session state authenticated is true exactly when
\* current_user holds a user; a session that became authenticated did so in
\* a run whose authenticate call returned success, and current_user is that
\* result's user; a press of Login that did not end in such a success leaves
\* both as they were; and after a press of Logout authenticated is false,
\* current_user is None and no CAPTCHA challenge is held.
C35_SessionFollowsLogin ==
    /\ LoggedIn <=> _get_current_user(session_state) # PyNone
    /\ page.run > 0 /\ LoggedIn /\ ~_is_authenticated(page.before) =>
        /\ Called(page.calls, "authenticate")
        /\ last.op = "authenticate"
        /\ last.ret.success
        /\ last.ret.user # PyNone
        /\ session_state["current_user"] = last.ret.user
    /\ /\ page.run > 0
       /\ page.button = "Login"
       /\ ~(Called(page.calls, "authenticate") /\ last.ret.success)
       => /\ LoggedIn = _is_authenticated(page.before)
          /\ _get_current_user(session_state) = _get_current_user(page.before)
    /\ page.run > 0 /\ page.button = "logout_btn" =>
        /\ session_state["authenticated"] = FALSE
        /\ session_state["current_user"] = PyNone
        /\ "captcha_x" \notin DOMAIN session_state
        /\ "captcha_y" \notin DOMAIN session_state

\* Logout was pressed in a session that had logged in while it held a
\* challenge
C35_Witness ==
    /\ page.button = "logout_btn"
    /\ _is_authenticated(page.before)
    /\ "captcha_x" \in DOMAIN page.before
    /\ audit[Len(audit)].msg[1] = "User logged out: "
    /\ ~LoggedIn

\* the users render may be given: None, and each user record with each role
UsersGiven ==
    {PyNone} \cup
    {User(u, users[u].email, role, users[u].password) :
        u \in DOMAIN users, role \in Roles \cup {"Admin"}}

\* the buttons of the panel, each pressed with its fields filled in
PanelClicks ==
    {NoInput,
     [NoInput EXCEPT !.button = "Update User Info", !.selected = "alice",
                     !.email_update = EmailNew, !.role_update = "admin"],
     [NoInput EXCEPT !.button = "resetpw_btn", !.resetpw_user = "alice",
                     !.resetpw_val = PwGood2],
     [NoInput EXCEPT !.button = "Unlock User", !.unlock = "alice"],
     [NoInput EXCEPT !.button = "newuser_btn", !.newuser_name = "bob",
                     !.newuser_email = EmailOk, !.newuser_pw = PwGood2]}

\* C36: the admin panel is on the screen, and one of its operations was
\* called, only in a session whose current user is present and is_admin;
\* AdminPage.render given no user, or a user that is not is_admin (a viewer
\* among them), renders nothing and calls nothing, whatever is pressed.
C36_AdminPanelForAdminsOnly ==
    /\ \/ Shown(page.rendered, "Admin Panel")
       \/ \E op \in {"log_exists", "get_log_content", "get_all_users",
                      "get_locked_users", "update_user",
                      "admin_reset_password", "unlock_user", "create_user"} :
            Called(page.calls, op)
       => AdminLoggedIn
    /\ \A current_user \in UsersGiven, w \in PanelClicks :
        current_user = PyNone \/ ~is_admin(current_user) =>
            AdminPage_render(Run(State, session_state), current_user, w)
                = Run(State, session_state)

\* a viewer is logged in and sees the viewer dashboard; the stores hold a
\* locked account and users, which the panel would offer
C36_Witness ==
    /\ LoggedIn
    /\ is_viewer(_get_current_user(session_state))
    /\ Shown(page.rendered, "Viewer Dashboard")
    /\ ~Shown(page.rendered, "Admin Panel")
    /\ get_locked_users(State) # {}
    /\ \A w \in PanelClicks :
        AdminPage_render(Run(State, session_state),
                         _get_current_user(session_state), w).calls = <<>>

============================================================================
